---- MODULE Spec2Model ----
(***************************************************************************)
(* Model of bot/database.py: the Database class of the application         *)
(* tracker.  Every method issues one SQL statement on a pooled connection, *)
(* so every method is one atomic action on the two tables Users and        *)
(* Applications.  The tables' constraints and column defaults are not part *)
(* of database.py; they are taken from the data model of the               *)
(* specification (unique keys, defaults, nullable last_updated).           *)
(***************************************************************************)
EXTENDS Integers, FiniteSets, Sequences, TLC

\* ---------------------------------------------------------------- bounds
MaxChat   == 1      \* chat ids 1..MaxChat
MaxSuffix == 1      \* application suffixes 0..MaxSuffix
MaxTime   == 2      \* store clock, seconds since the epoch, 0..MaxTime
MaxPeriod == 1      \* refresh periods 0..MaxPeriod seconds
MaxRetriesArg == 4  \* connect(max_retries) from -1 up to MaxRetriesArg
MaxDelayArg   == 3  \* connect(delay) from 1 to MaxDelayArg seconds

ChatIds  == 1..MaxChat
Numbers  == {"1234"}
Suffixes == 0..MaxSuffix
Types    == {"TP"}
Years    == {"2023"}
Statuses == {"Unknown", "Approved"}
Langs    == {"EN", "CS"}
Periods  == 0..MaxPeriod

\* a nullable timestamp is <<>> (SQL NULL) or <<t>>
NULL == <<>>
EPOCH == <<0>>

VARIABLES
    users,   \* table Users: set of rows [chat_id, language]
    apps,    \* table Applications: set of rows; chat_id is the owning user
             \* (user_id and chat_id are both keys of Users)
    now,     \* the store's clock (CURRENT_TIMESTAMP)
    last,    \* the last Database call: its arguments, the branch it took, its result
    conn,    \* Database.connect: self.pool, the loop's attempt and delay, where it stands
    tasks    \* coroutines that call the Database concurrently, and where each stands

vars == <<users, apps, now, last, conn, tasks>>

\* ------------------------------------------------- schema (specification)
\* Composite key of an Applications row.
AppKey(r) ==
    <<r.chat_id, r.application_number, r.application_suffix,
      r.application_type, r.application_year>>

\* A freshly inserted Applications row: the columns the INSERT does not name
\* take their defaults.  language is the column get_user_language and
\* set_user_language use; its default is the data model's default language.
NewApplication(chat_id, number, suffix, type, year) ==
    [chat_id |-> chat_id, application_number |-> number,
     application_suffix |-> suffix, application_type |-> type,
     application_year |-> year, current_status |-> "Unknown",
     is_resolved |-> FALSE, last_updated |-> NULL, language |-> "EN"]

\* UNIQUE (user, number, suffix, type, year) on Applications.
ApplicationUniqueViolation(A, row) == \E r \in A : AppKey(r) = AppKey(row)

\* UNIQUE (chat_id) on Users.
UserUniqueViolation(U, chat_id) == \E u \in U : u.chat_id = chat_id

\* COALESCE(last_updated, TIMESTAMP '1970-01-01') of the due query, in seconds.
Coalesce(ts, default) == IF ts = NULL THEN default[1] ELSE ts[1]

\* -------------------------------------------------------- call records
\* What a call leaves behind for its caller.  cause is the branch the method
\* took: "ok", "duplicate" (except UniqueViolationError), "error" (except
\* Exception) or "acquire" (pool.acquire() raised, outside every try).
\* ret is the returned value as Python prints it, or "raised" when an
\* exception left the method.
NoArgs == [chat_id |-> 0, application_number |-> "", application_suffix |-> 0,
           application_type |-> "", application_year |-> "", status |-> "",
           is_resolved |-> FALSE, lang |-> "", period |-> 0]

\* repeats is the time of the call before it when that call had the same
\* method and arguments and returned True (the call is a re-execution), and
\* NULL otherwise.
Call(op, args, cause, ret, rows) ==
    [op |-> op, args |-> args, at |-> now, cause |-> cause, ret |-> ret,
     rows |-> rows,
     repeats |-> IF last.op = op /\ last.args = args /\ last.ret = "True"
                 THEN <<last.at>> ELSE NULL]

NoCall == [op |-> "none", args |-> NoArgs, at |-> 0, cause |-> "ok",
           ret |-> "None", rows |-> {}, repeats |-> NULL]

\* Outcome of a method: the value returned and the tables afterwards.
Outcome(cause, ret, U, A) == [cause |-> cause, ret |-> ret, users |-> U, apps |-> A]

Acquire == {"ok", "fail"}       \* pool.acquire(): a connection, or an exception
Execute == {"ok", "error"}      \* conn.execute/fetch: runs, or a store error

\* ------------------------------------------------------------- methods
\* Rows of Applications owned by the user with this chat_id:
\* WHERE user_id = (SELECT user_id FROM Users WHERE chat_id = $1).
\* Without such a user the subselect is NULL and no row matches.
RowsOfUser(U, A, chat_id) ==
    {r \in A : \E u \in U : u.chat_id = chat_id /\ r.chat_id = u.chat_id}

\* ... AND application_number = $n
RowsOfNumber(U, A, chat_id, number) ==
    {r \in RowsOfUser(U, A, chat_id) : r.application_number = number}

\* INSERT INTO Users (chat_id, ..., language) VALUES (...)
add_user_to_db(U, A, chat_id, lang, acq, exec) ==
    IF acq = "fail" THEN Outcome("acquire", "raised", U, A)
    ELSE IF exec = "error" THEN Outcome("error", "False", U, A)
    ELSE IF UserUniqueViolation(U, chat_id) THEN Outcome("duplicate", "False", U, A)
    ELSE Outcome("ok", "True", U \cup {[chat_id |-> chat_id, language |-> lang]}, A)

\* Variant of add_application_to_db: the insert is an upsert (ON CONFLICT DO
\* UPDATE), so a second insert of a stored tuple replaces the row by a fresh
\* one and reports success.
add_application_to_db_upsert(U, A, chat_id, number, suffix, type, year, acq, exec) ==
    LET new == {NewApplication(u.chat_id, number, suffix, type, year) :
                    u \in {v \in U : v.chat_id = chat_id}}
        old == {r \in A : \E row \in new : AppKey(r) = AppKey(row)}
    IN  IF acq = "fail" THEN Outcome("acquire", "raised", U, A)
        ELSE IF exec = "error" THEN Outcome("error", "False", U, A)
        ELSE Outcome("ok", "True", U, (A \ old) \cup new)

\* INSERT INTO Applications (user_id, number, suffix, type, year)
\* SELECT user_id, $2, $3, $4, $5 FROM Users WHERE chat_id = $1
\* inserts one row per Users row with this chat_id: none when there is no
\* such user, and then the statement still completes without an error.
add_application_to_db(U, A, chat_id, number, suffix, type, year, acq, exec) ==
    LET new == {NewApplication(u.chat_id, number, suffix, type, year) :
                    u \in {v \in U : v.chat_id = chat_id}}
    IN  IF acq = "fail" THEN Outcome("acquire", "raised", U, A)
        ELSE IF exec = "error" THEN Outcome("error", "False", U, A)
        ELSE IF \E row \in new : ApplicationUniqueViolation(A, row)
             THEN Outcome("duplicate", "False", U, A)
        ELSE Outcome("ok", "True", U, A \cup new)

\* Variant of update_db_status: the SET list leaves last_updated out.
update_db_status_nostamp(U, A, t, chat_id, number, status, resolved, acq, exec) ==
    LET hit == RowsOfNumber(U, A, chat_id, number)
        upd == {[r EXCEPT !.current_status = status, !.is_resolved = resolved]
                  : r \in hit}
    IN  IF acq = "fail" THEN Outcome("acquire", "raised", U, A)
        ELSE IF exec = "error" THEN Outcome("error", "False", U, A)
        ELSE Outcome("ok", "True", U, (A \ hit) \cup upd)

\* Variant of update_db_status: a resolved application is never reopened
\* (is_resolved = is_resolved OR $2).
update_db_status_sticky(U, A, t, chat_id, number, status, resolved, acq, exec) ==
    LET hit == RowsOfNumber(U, A, chat_id, number)
        upd == {[r EXCEPT !.current_status = status,
                          !.is_resolved = (r.is_resolved \/ resolved),
                          !.last_updated = <<t>>] : r \in hit}
    IN  IF acq = "fail" THEN Outcome("acquire", "raised", U, A)
        ELSE IF exec = "error" THEN Outcome("error", "False", U, A)
        ELSE Outcome("ok", "True", U, (A \ hit) \cup upd)

\* Variant of update_db_status: is_resolved is computed from the stored status
\* (resolved when the fetched status repeats the stored one) instead of being
\* taken from the argument.
update_db_status_repeat(U, A, t, chat_id, number, status, resolved, acq, exec) ==
    LET hit == RowsOfNumber(U, A, chat_id, number)
        upd == {[r EXCEPT !.current_status = status,
                          !.is_resolved = (r.current_status = status),
                          !.last_updated = <<t>>] : r \in hit}
    IN  IF acq = "fail" THEN Outcome("acquire", "raised", U, A)
        ELSE IF exec = "error" THEN Outcome("error", "False", U, A)
        ELSE Outcome("ok", "True", U, (A \ hit) \cup upd)

\* UPDATE Applications SET current_status = $1, last_updated = CURRENT_TIMESTAMP,
\* is_resolved = $2 WHERE user_id = (...) AND application_number = $4
update_db_status(U, A, t, chat_id, number, status, resolved, acq, exec) ==
    LET hit == RowsOfNumber(U, A, chat_id, number)
        upd == {[r EXCEPT !.current_status = status, !.is_resolved = resolved,
                          !.last_updated = <<t>>] : r \in hit}
    IN  IF acq = "fail" THEN Outcome("acquire", "raised", U, A)
        ELSE IF exec = "error" THEN Outcome("error", "False", U, A)
        ELSE Outcome("ok", "True", U, (A \ hit) \cup upd)

\* Variant of remove_from_db: a DELETE that removed no row counts as a failure.
remove_from_db_strict(U, A, chat_id, number, acq, exec) ==
    IF acq = "fail" THEN Outcome("acquire", "raised", U, A)
    ELSE IF exec = "error" THEN Outcome("error", "False", U, A)
    ELSE IF RowsOfNumber(U, A, chat_id, number) = {} THEN Outcome("ok", "False", U, A)
    ELSE Outcome("ok", "True", U, A \ RowsOfNumber(U, A, chat_id, number))

\* DELETE FROM Applications WHERE user_id = (...) AND application_number = $2
remove_from_db(U, A, chat_id, number, acq, exec) ==
    IF acq = "fail" THEN Outcome("acquire", "raised", U, A)
    ELSE IF exec = "error" THEN Outcome("error", "False", U, A)
    ELSE Outcome("ok", "True", U, A \ RowsOfNumber(U, A, chat_id, number))

\* SELECT current_status FROM Applications WHERE user_id = (...) AND
\* application_number = $2, read with fetchval: the first column of the first
\* row, None without a row.  The query has no ORDER BY, so with several
\* matching rows any of them can be the first: the set of possible outcomes.
get_application_status(U, A, chat_id, number, acq, exec) ==
    LET hit == RowsOfNumber(U, A, chat_id, number)
    IN  IF acq = "fail" THEN {Outcome("acquire", "raised", U, A)}
        ELSE IF exec = "error" THEN {Outcome("error", "None", U, A)}
        ELSE IF hit = {} THEN {Outcome("ok", "None", U, A)}
        ELSE {Outcome("ok", r.current_status, U, A) : r \in hit}

\* Variants of NeedsUpdate: >= for >, the comparison reversed, and the
\* is_resolved condition left out.
NeedsUpdate_ge(r, t, seconds) ==
    /\ t - Coalesce(r.last_updated, EPOCH) >= seconds
    /\ r.is_resolved = FALSE

NeedsUpdate_lt(r, t, seconds) ==
    /\ t - Coalesce(r.last_updated, EPOCH) < seconds
    /\ r.is_resolved = FALSE

NeedsUpdate_any(r, t, seconds) ==
    t - Coalesce(r.last_updated, EPOCH) > seconds

\* WHERE EXTRACT(EPOCH FROM (CURRENT_TIMESTAMP -
\*       COALESCE(last_updated, TIMESTAMP '1970-01-01'))) > $1
\*   AND is_resolved = FALSE
NeedsUpdate(r, t, seconds) ==
    /\ t - Coalesce(r.last_updated, EPOCH) > seconds
    /\ r.is_resolved = FALSE

\* SELECT chat_id, application_number, application_suffix, application_type,
\* application_year, last_updated FROM Applications WHERE ...
\* The list the method returns is modelled by the set of its rows.
get_applications_needing_update(A, t, refresh_period, acq, exec) ==
    LET seconds == refresh_period
        Columns(r) == [chat_id |-> r.chat_id,
                       application_number |-> r.application_number,
                       application_suffix |-> r.application_suffix,
                       application_type |-> r.application_type,
                       application_year |-> r.application_year,
                       last_updated |-> r.last_updated]
    IN  IF acq = "fail" THEN [cause |-> "acquire", ret |-> "raised", rows |-> {}]
        ELSE IF exec = "error" THEN [cause |-> "error", ret |-> "list", rows |-> {}]
        ELSE [cause |-> "ok", ret |-> "list",
              rows |-> {Columns(r) : r \in {x \in A : NeedsUpdate(x, t, seconds)}}]

\* Variants of update_timestamp: the timestamp written is the epoch instead
\* of the current time; the refresh also reopens the application.
update_timestamp_epoch(U, A, t, chat_id, acq, exec) ==
    LET hit == {r \in A : r.chat_id = chat_id}
        upd == {[r EXCEPT !.last_updated = EPOCH] : r \in hit}
    IN  IF acq = "fail" THEN Outcome("acquire", "raised", U, A)
        ELSE IF exec = "error" THEN Outcome("error", "None", U, A)
        ELSE Outcome("ok", "None", U, (A \ hit) \cup upd)

update_timestamp_reopen(U, A, t, chat_id, acq, exec) ==
    LET hit == {r \in A : r.chat_id = chat_id}
        upd == {[r EXCEPT !.last_updated = <<t>>, !.is_resolved = FALSE] : r \in hit}
    IN  IF acq = "fail" THEN Outcome("acquire", "raised", U, A)
        ELSE IF exec = "error" THEN Outcome("error", "None", U, A)
        ELSE Outcome("ok", "None", U, (A \ hit) \cup upd)

\* UPDATE Applications SET last_updated = CURRENT_TIMESTAMP WHERE chat_id = $1
\* The method has no return statement: it returns None on every path that
\* does not raise.
update_timestamp(U, A, t, chat_id, acq, exec) ==
    LET hit == {r \in A : r.chat_id = chat_id}
        upd == {[r EXCEPT !.last_updated = <<t>>] : r \in hit}
    IN  IF acq = "fail" THEN Outcome("acquire", "raised", U, A)
        ELSE IF exec = "error" THEN Outcome("error", "None", U, A)
        ELSE Outcome("ok", "None", U, (A \ hit) \cup upd)

\* SELECT language FROM Applications WHERE chat_id = $1, read with fetchval:
\* the language column of the first row, None without a row; any matching
\* row can be the first.
get_user_language(U, A, chat_id, acq, exec) ==
    LET hit == {r \in A : r.chat_id = chat_id}
    IN  IF acq = "fail" THEN {Outcome("acquire", "raised", U, A)}
        ELSE IF exec = "error" THEN {Outcome("error", "None", U, A)}
        ELSE IF hit = {} THEN {Outcome("ok", "None", U, A)}
        ELSE {Outcome("ok", r.language, U, A) : r \in hit}

\* UPDATE Applications SET language = $1 WHERE chat_id = $2
set_user_language(U, A, chat_id, lang, acq, exec) ==
    LET hit == {r \in A : r.chat_id = chat_id}
        upd == {[r EXCEPT !.language = lang] : r \in hit}
    IN  IF acq = "fail" THEN Outcome("acquire", "raised", U, A)
        ELSE IF exec = "error" THEN Outcome("error", "False", U, A)
        ELSE Outcome("ok", "True", U, (A \ hit) \cup upd)

\* ------------------------------------------------------------- connect
MAX_RETRIES == 5
RETRY_DELAY == 2

\* Database.__init__: no pool, connect not called.  tries counts the calls of
\* asyncpg.create_pool, slept lists the arguments of asyncio.sleep, first is
\* the delay connect was called with.
NotConnected ==
    [pc |-> "init", pool |-> "None", max_retries |-> 0, first |-> 0, delay |-> 0,
     attempt |-> 0, tries |-> 0, slept |-> <<>>]

\* for attempt in range(1, max_retries + 1): the first value of the loop, or
\* no iteration at all when the range is empty.
connect_enter(c, max_retries, delay) ==
    [c EXCEPT !.max_retries = max_retries, !.first = delay, !.delay = delay,
              !.attempt = IF 1 < max_retries + 1 THEN 1 ELSE 0,
              !.pc = IF 1 < max_retries + 1 THEN "attempt" ELSE "returned"]

\* Variant of MayRetry: <= for <.
MayRetry_le(attempt, max_retries) == attempt <= max_retries

\* if attempt < max_retries: sleep and retry, else: raise
MayRetry(attempt, max_retries) == attempt < max_retries

\* Variant of NextDelay: the delay is not doubled.
NextDelay_same(delay) == delay

\* delay *= 2
NextDelay(delay) == delay * 2

\* One pass of the try block: create_pool succeeds (pool set, break) or
\* raises (sleep before the next attempt, or re-raise on the last one).
connect_attempt(c, ok) ==
    IF ok THEN [c EXCEPT !.tries = @ + 1, !.pool = "pool", !.pc = "returned"]
    ELSE IF MayRetry(c.attempt, c.max_retries)
         THEN [c EXCEPT !.tries = @ + 1, !.pc = "sleep"]
         ELSE [c EXCEPT !.tries = @ + 1, !.pc = "raised"]

\* await asyncio.sleep(delay); delay *= 2; then the loop takes its next value,
\* or ends (and connect returns) when the range is used up.
connect_sleep(c) ==
    [c EXCEPT !.slept = Append(@, c.delay), !.delay = NextDelay(c.delay),
              !.attempt = @ + 1,
              !.pc = IF c.attempt + 1 < c.max_retries + 1 THEN "attempt"
                     ELSE "returned"]

\* The Database after connect() with its default arguments succeeded at once.
Connected ==
    connect_attempt(connect_enter(NotConnected, MAX_RETRIES, RETRY_DELAY), TRUE)

NoTasks == <<>>

\* ------------------------------------------------------------- actions
\* A connected Database on empty tables, no call made yet.
Init ==
    /\ users = {}
    /\ apps = {}
    /\ now = 0
    /\ last = NoCall
    /\ conn = Connected
    /\ tasks = NoTasks

\* The store's clock advances.
Tick ==
    /\ now < MaxTime
    /\ now' = now + 1
    /\ UNCHANGED <<users, apps, last, conn, tasks>>

AddUser ==
    \E chat_id \in ChatIds, lang \in Langs, acq \in Acquire, exec \in Execute :
        LET o == add_user_to_db(users, apps, chat_id, lang, acq, exec)
        IN  /\ users' = o.users
            /\ apps' = o.apps
            /\ last' = Call("add_user_to_db",
                            [NoArgs EXCEPT !.chat_id = chat_id, !.lang = lang],
                            o.cause, o.ret, {})
            /\ UNCHANGED <<now, conn, tasks>>

AddApplication ==
    \E chat_id \in ChatIds, number \in Numbers, suffix \in Suffixes,
       type \in Types, year \in Years, acq \in Acquire, exec \in Execute :
        LET o == add_application_to_db(users, apps, chat_id, number, suffix,
                                       type, year, acq, exec)
        IN  /\ users' = o.users
            /\ apps' = o.apps
            /\ last' = Call("add_application_to_db",
                            [NoArgs EXCEPT !.chat_id = chat_id,
                                           !.application_number = number,
                                           !.application_suffix = suffix,
                                           !.application_type = type,
                                           !.application_year = year],
                            o.cause, o.ret, {})
            /\ UNCHANGED <<now, conn, tasks>>

UpdateDbStatus ==
    \E chat_id \in ChatIds, number \in Numbers, status \in Statuses,
       resolved \in BOOLEAN, acq \in Acquire, exec \in Execute :
        LET o == update_db_status(users, apps, now, chat_id, number, status,
                                  resolved, acq, exec)
        IN  /\ users' = o.users
            /\ apps' = o.apps
            /\ last' = Call("update_db_status",
                            [NoArgs EXCEPT !.chat_id = chat_id,
                                           !.application_number = number,
                                           !.status = status,
                                           !.is_resolved = resolved],
                            o.cause, o.ret, {})
            /\ UNCHANGED <<now, conn, tasks>>

RemoveFromDb ==
    \E chat_id \in ChatIds, number \in Numbers, acq \in Acquire, exec \in Execute :
        LET o == remove_from_db(users, apps, chat_id, number, acq, exec)
        IN  /\ users' = o.users
            /\ apps' = o.apps
            /\ last' = Call("remove_from_db",
                            [NoArgs EXCEPT !.chat_id = chat_id,
                                           !.application_number = number],
                            o.cause, o.ret, {})
            /\ UNCHANGED <<now, conn, tasks>>

GetApplicationStatus ==
    \E chat_id \in ChatIds, number \in Numbers, acq \in Acquire, exec \in Execute :
        \E o \in get_application_status(users, apps, chat_id, number, acq, exec) :
            /\ last' = Call("get_application_status",
                            [NoArgs EXCEPT !.chat_id = chat_id,
                                           !.application_number = number],
                            o.cause, o.ret, {})
            /\ UNCHANGED <<users, apps, now, conn, tasks>>

GetApplicationsNeedingUpdate ==
    \E period \in Periods, acq \in Acquire, exec \in Execute :
        LET o == get_applications_needing_update(apps, now, period, acq, exec)
        IN  /\ last' = Call("get_applications_needing_update",
                            [NoArgs EXCEPT !.period = period],
                            o.cause, o.ret, o.rows)
            /\ UNCHANGED <<users, apps, now, conn, tasks>>

UpdateTimestamp ==
    \E chat_id \in ChatIds, acq \in Acquire, exec \in Execute :
        LET o == update_timestamp(users, apps, now, chat_id, acq, exec)
        IN  /\ users' = o.users
            /\ apps' = o.apps
            /\ last' = Call("update_timestamp", [NoArgs EXCEPT !.chat_id = chat_id],
                            o.cause, o.ret, {})
            /\ UNCHANGED <<now, conn, tasks>>

GetUserLanguage ==
    \E chat_id \in ChatIds, acq \in Acquire, exec \in Execute :
        \E o \in get_user_language(users, apps, chat_id, acq, exec) :
            /\ last' = Call("get_user_language", [NoArgs EXCEPT !.chat_id = chat_id],
                            o.cause, o.ret, {})
            /\ UNCHANGED <<users, apps, now, conn, tasks>>

SetUserLanguage ==
    \E chat_id \in ChatIds, lang \in Langs, acq \in Acquire, exec \in Execute :
        LET o == set_user_language(users, apps, chat_id, lang, acq, exec)
        IN  /\ users' = o.users
            /\ apps' = o.apps
            /\ last' = Call("set_user_language",
                            [NoArgs EXCEPT !.chat_id = chat_id, !.lang = lang],
                            o.cause, o.ret, {})
            /\ UNCHANGED <<now, conn, tasks>>

Next ==
    \/ Tick
    \/ AddUser
    \/ AddApplication
    \/ UpdateDbStatus
    \/ RemoveFromDb
    \/ GetApplicationStatus
    \/ GetApplicationsNeedingUpdate
    \/ UpdateTimestamp
    \/ GetUserLanguage
    \/ SetUserLanguage

Spec == Init /\ [][Next]_vars

\* ---------------------------------------------- connect, step by step
RetriesArgs == (-1..MaxRetriesArg) \cup {MAX_RETRIES}
DelayArgs   == (1..MaxDelayArg) \cup {RETRY_DELAY}

\* The Database as constructed: empty tables, no pool.
InitConnect ==
    /\ users = {}
    /\ apps = {}
    /\ now = 0
    /\ last = NoCall
    /\ conn = NotConnected
    /\ tasks = NoTasks

ConnectCall ==
    /\ conn.pc = "init"
    /\ \E max_retries \in RetriesArgs, delay \in DelayArgs :
          conn' = connect_enter(conn, max_retries, delay)
    /\ UNCHANGED <<users, apps, now, last, tasks>>

ConnectAttempt ==
    /\ conn.pc = "attempt"
    /\ \E ok \in BOOLEAN : conn' = connect_attempt(conn, ok)
    /\ UNCHANGED <<users, apps, now, last, tasks>>

ConnectSleep ==
    /\ conn.pc = "sleep"
    /\ conn' = connect_sleep(conn)
    /\ UNCHANGED <<users, apps, now, last, tasks>>

NextConnect ==
    \/ ConnectCall
    \/ ConnectAttempt
    \/ ConnectSleep

\* The event loop resumes connect when create_pool has returned or raised
\* and when the sleep is over.
SpecConnect == InitConnect /\ [][NextConnect]_vars /\ WF_vars(NextConnect)

\* ------------------------------- two concurrent update_db_status calls
\* Two coroutines (fetch workers) are inside update_db_status for the same
\* chat_id and application_number.  Each suspends at `async with
\* self.pool.acquire()` and at `await conn.execute(...)`; the UPDATE itself is
\* one statement, which the store runs atomically.
TaskIds == {"t1", "t2"}
TargetChat == CHOOSE c \in ChatIds : TRUE
TargetNumber == CHOOSE n \in Numbers : TRUE

\* A user with one or more subscribed, never checked applications of the
\* number, and both calls made with some status and is_resolved.
InitConcurrent ==
    /\ users = {[chat_id |-> TargetChat, language |-> "EN"]}
    /\ \E sfx \in SUBSET Suffixes :
          /\ sfx # {}
          /\ apps = {NewApplication(TargetChat, TargetNumber, x, ty, y) :
                        x \in sfx, ty \in Types, y \in Years}
    /\ now = 0
    /\ last = NoCall
    /\ conn = Connected
    /\ tasks \in [TaskIds -> [pc : {"start"}, status : Statuses,
                              is_resolved : BOOLEAN, ret : {"None"},
                              wrote : {0}, at : {0}]]

\* async with self.pool.acquire() as conn: a connection, or an exception
\* that leaves the method.
TaskAcquire(t) ==
    /\ tasks[t].pc = "start"
    /\ \E acq \in Acquire :
          tasks' = [tasks EXCEPT ![t].pc = IF acq = "ok" THEN "acquired" ELSE "done",
                                 ![t].ret = IF acq = "ok" THEN "None" ELSE "raised"]
    /\ UNCHANGED <<users, apps, now, last, conn>>

\* await conn.execute(query, *params); return True / except: return False.
\* wrote numbers the statements that ran, in the order the store ran them.
TaskExecute(t) ==
    /\ tasks[t].pc = "acquired"
    /\ \E exec \in Execute :
          LET o == update_db_status(users, apps, now, TargetChat, TargetNumber,
                                    tasks[t].status, tasks[t].is_resolved,
                                    "ok", exec)
              n == Cardinality({u \in TaskIds : tasks[u].wrote > 0})
          IN  /\ apps' = o.apps
              /\ users' = o.users
              /\ tasks' = [tasks EXCEPT ![t].pc = "done", ![t].ret = o.ret,
                                        ![t].at = now,
                                        ![t].wrote = IF o.cause = "ok"
                                                     THEN n + 1 ELSE 0]
    /\ UNCHANGED <<now, last, conn>>

NextConcurrent ==
    \/ Tick
    \/ \E t \in TaskIds : TaskAcquire(t)
    \/ \E t \in TaskIds : TaskExecute(t)

SpecConcurrent == InitConcurrent /\ [][NextConcurrent]_vars

TypeOK ==
    /\ users \subseteq [chat_id : ChatIds, language : Langs]
    /\ \A r \in apps :
          /\ r.chat_id \in ChatIds
          /\ r.current_status \in Statuses
          /\ r.is_resolved \in BOOLEAN
          /\ r.last_updated = NULL \/ r.last_updated[1] \in 0..MaxTime
          /\ r.language \in Langs
    /\ now \in 0..MaxTime

\* ------------------------------------------------------------ properties
\* The step is a Database call (a clock tick is the only step that moves now).
IsCall(op) == now' = now /\ last'.op = op

\* The store answered the call: pool.acquire() and the statement both ran.
Answered(c) == c.cause \in {"ok", "duplicate"}

UserExists(U, chat_id) == \E u \in U : u.chat_id = chat_id

\* The Applications row an add_application_to_db call names.
RowNamed(A, args) ==
    {r \in A : AppKey(r) = <<args.chat_id, args.application_number,
                             args.application_suffix, args.application_type,
                             args.application_year>>}

\* Seconds since the row was last updated, as the store's clock t sees it.
Age(r, t) == t - r.last_updated[1]

\* The columns of r that get_applications_needing_update returns.
Selected(r) ==
    [chat_id |-> r.chat_id, application_number |-> r.application_number,
     application_suffix |-> r.application_suffix,
     application_type |-> r.application_type,
     application_year |-> r.application_year, last_updated |-> r.last_updated]

\* C1: add_application_to_db for an existing user and a tuple that is not yet
\* stored returns True and stores the row; the same call repeated (the tuple is
\* stored) returns False and leaves both tables as they were: no second row,
\* no field of the stored row overwritten.
C1_DuplicateAddRejected ==
    [][(/\ IsCall("add_application_to_db")
        /\ Answered(last')
        /\ UserExists(users, last'.args.chat_id))
       => IF RowNamed(apps, last'.args) # {}
          THEN /\ last'.ret = "False"
               /\ apps' = apps
               /\ users' = users
          ELSE /\ last'.ret = "True"
               /\ Cardinality(RowNamed(apps', last'.args)) = 1
               /\ apps \subseteq apps'
               /\ Cardinality(apps') = Cardinality(apps) + 1]_vars

\* C1 witness: the second of two identical adds was rejected.
C1_Witness ==
    /\ last.op = "add_application_to_db"
    /\ last.cause = "duplicate"
    /\ last.repeats # NULL
    /\ last.ret = "False"
    /\ \E r \in RowNamed(apps, last.args) :
          /\ r.current_status = "Unknown"
          /\ r.last_updated = NULL

\* C2: add_application_to_db for a chat_id without a Users row does not
\* return True and creates no Applications row.
C2_UnknownUserRejected ==
    (/\ last.op = "add_application_to_db"
     /\ ~UserExists(users, last.args.chat_id))
    => /\ last.ret # "True"
       /\ \A r \in apps : r.chat_id # last.args.chat_id

\* C3: the value a duplicate insert returns differs from the value the same
\* call returns when the store fails for another reason, for
\* add_application_to_db and for add_user_to_db.
C3_DuplicateDistinguished ==
    /\ (last.op = "add_application_to_db" /\ last.cause = "duplicate")
       => last.ret # add_application_to_db(users, apps, last.args.chat_id,
                        last.args.application_number, last.args.application_suffix,
                        last.args.application_type, last.args.application_year,
                        "ok", "error").ret
    /\ (last.op = "add_user_to_db" /\ last.cause = "duplicate")
       => last.ret # add_user_to_db(users, apps, last.args.chat_id,
                        last.args.lang, "ok", "error").ret

\* C4: an answered get_applications_needing_update(period) returns exactly
\* the applications with is_resolved = false and now - last_updated > period,
\* a null last_updated counting as time 0, now being the store's clock when
\* the query ran.
C4_DueSelection ==
    (last.op = "get_applications_needing_update" /\ last.cause = "ok")
    => last.rows =
         {Selected(r) : r \in
            {x \in apps :
               /\ ~x.is_resolved
               /\ last.at - (IF x.last_updated = NULL THEN 0 ELSE x.last_updated[1])
                    > last.args.period}}

\* C4 witness: a query that returned a never-checked row and left a resolved
\* row out.
C4_Witness ==
    /\ last.op = "get_applications_needing_update"
    /\ last.cause = "ok"
    /\ \E r \in apps : r.last_updated = NULL /\ Selected(r) \in last.rows
    /\ \E r \in apps : r.is_resolved /\ Selected(r) \notin last.rows

\* C5 as stated: an unresolved application updated less than period ago
\* (period - e) is returned, one updated more than period ago (period + e) is
\* not.
C5_BoundaryAsStated ==
    (last.op = "get_applications_needing_update" /\ last.cause = "ok")
    => \A r \in apps :
          (~r.is_resolved /\ r.last_updated # NULL)
          => /\ Age(r, last.at) < last.args.period => Selected(r) \in last.rows
             /\ Age(r, last.at) > last.args.period => Selected(r) \notin last.rows

\* C5 amended: an unresolved application updated less than period ago
\* (period - e) is not returned, one updated more than period ago
\* (period + e) is returned.
C5_BoundaryAmended ==
    (last.op = "get_applications_needing_update" /\ last.cause = "ok")
    => \A r \in apps :
          (~r.is_resolved /\ r.last_updated # NULL)
          => /\ Age(r, last.at) < last.args.period => Selected(r) \notin last.rows
             /\ Age(r, last.at) > last.args.period => Selected(r) \in last.rows

\* C5 witness: a query with a positive period returned an unresolved
\* application that was updated more than the period ago.
C5_Witness ==
    /\ last.op = "get_applications_needing_update"
    /\ last.cause = "ok"
    /\ last.args.period > 0
    /\ \E r \in apps :
          /\ ~r.is_resolved
          /\ r.last_updated # NULL
          /\ Age(r, last.at) > last.args.period
          /\ Selected(r) \in last.rows

\* The other side of the boundary: an unresolved application updated less
\* than the period ago was left out.
C5_NotDueReached ==
    /\ last.op = "get_applications_needing_update"
    /\ last.cause = "ok"
    /\ \E r \in apps :
          /\ ~r.is_resolved
          /\ r.last_updated # NULL
          /\ Age(r, last.at) < last.args.period
          /\ Selected(r) \notin last.rows

\* C6: a resolved application is never returned by
\* get_applications_needing_update, whatever the period and the time, and it
\* stays resolved through every call except an update_db_status that writes
\* is_resolved = false for it or a remove_from_db that deletes it.
C6_ResolvedExcluded ==
    [][\A r \in apps :
          r.is_resolved
          => /\ (IsCall("get_applications_needing_update")
                 => Selected(r) \notin last'.rows)
             /\ (\A x \in apps' : AppKey(x) = AppKey(r) => x.is_resolved)
                \/ /\ IsCall("update_db_status")
                   /\ last'.args.chat_id = r.chat_id
                   /\ last'.args.application_number = r.application_number
                   /\ last'.args.is_resolved = FALSE
             /\ (\E x \in apps' : AppKey(x) = AppKey(r))
                \/ /\ IsCall("remove_from_db")
                   /\ last'.args.chat_id = r.chat_id
                   /\ last'.args.application_number = r.application_number]_vars

\* C6 witness: a query left out a resolved application whose timestamp is
\* older than the period (never refreshed since it was resolved).
C6_Witness ==
    /\ last.op = "get_applications_needing_update"
    /\ last.cause = "ok"
    /\ \E r \in apps :
          /\ r.is_resolved
          /\ Age(r, last.at) > last.args.period
          /\ Selected(r) \notin last.rows

\* C7: no Database call lets an exception reach its caller, and a failed
\* update_db_status returns False.
C7_NeverRaises ==
    /\ last.ret # "raised"
    /\ (last.op = "update_db_status" /\ last.cause # "ok") => last.ret = "False"

\* C8: update_db_status and remove_from_db change or delete at most one
\* Applications row, the one application they are called for; every other
\* row is the same after the call.
C8_OneRowTouched ==
    [][(IsCall("update_db_status") \/ IsCall("remove_from_db"))
       => Cardinality(apps \ apps') <= 1]_vars

\* C9: after add_application_to_db returned True, an answered
\* get_application_status for the same chat_id and application_number in the
\* next call returns the default status "Unknown".
C9_VisibleAfterAdd ==
    [][(/\ last.op = "add_application_to_db"
        /\ last.ret = "True"
        /\ IsCall("get_application_status")
        /\ last'.cause = "ok"
        /\ last'.args.chat_id = last.args.chat_id
        /\ last'.args.application_number = last.args.application_number)
       => last'.ret = "Unknown"]_vars

\* C10: update_db_status called again with the arguments of a call that has
\* just returned True leaves current_status and is_resolved of every row as
\* they were after the first call, and no last_updated moves backwards.
C10_RepeatedUpdate ==
    [][(/\ last.op = "update_db_status"
        /\ last.ret = "True"
        /\ IsCall("update_db_status")
        /\ last'.args = last.args)
       => /\ Cardinality(apps') = Cardinality(apps)
          /\ \A r \in apps : \E x \in apps' :
                /\ AppKey(x) = AppKey(r)
                /\ x.current_status = r.current_status
                /\ x.is_resolved = r.is_resolved
                /\ r.last_updated # NULL
                   => x.last_updated # NULL /\ x.last_updated[1] >= r.last_updated[1]]_vars

\* C10 witness: the second of two identical update_db_status calls ran at a
\* later time than the first and moved last_updated of a row forward.
C10_Witness ==
    /\ last.op = "update_db_status"
    /\ last.ret = "True"
    /\ last.repeats # NULL
    /\ last.repeats[1] < last.at
    /\ \E r \in apps :
          /\ r.chat_id = last.args.chat_id
          /\ r.application_number = last.args.application_number
          /\ r.current_status = last.args.status
          /\ r.is_resolved = last.args.is_resolved
          /\ r.last_updated = <<last.at>>

\* C11: while a row exists its last_updated never goes back to null and never
\* decreases, whatever call or clock tick the step is.
C11_LastUpdatedMonotone ==
    [][\A r \in apps : \A x \in apps' :
          (AppKey(x) = AppKey(r) /\ r.last_updated # NULL)
          => /\ x.last_updated # NULL
             /\ x.last_updated[1] >= r.last_updated[1]]_vars

\* C11 witness: update_timestamp ran at a time after the epoch on a row that
\* update_db_status had stamped before, and the row carries the time of the
\* refresh.
C11_Witness ==
    /\ last.op = "update_timestamp"
    /\ last.cause = "ok"
    /\ last.at > 0
    /\ \E r \in apps :
          /\ r.chat_id = last.args.chat_id
          /\ r.current_status = "Approved"
          /\ r.last_updated = <<last.at>>

\* C13: an answered remove_from_db returns True whether or not a row
\* matched; without a matching row (no such application, no such user) it
\* leaves both tables as they were, and after it no row matches, so removing
\* again changes nothing and returns True again.
C13_RemoveIdempotent ==
    [][(IsCall("remove_from_db") /\ last'.cause = "ok")
       => /\ last'.ret = "True"
          /\ users' = users
          /\ RowsOfNumber(users, apps, last'.args.chat_id,
                          last'.args.application_number) = {} => apps' = apps
          /\ RowsOfNumber(users', apps', last'.args.chat_id,
                          last'.args.application_number) = {}]_vars

\* C13 witness: the second of two identical removals returned True while
\* the user exists.
C13_Witness ==
    /\ last.op = "remove_from_db"
    /\ last.repeats # NULL
    /\ last.ret = "True"
    /\ UserExists(users, last.args.chat_id)

\* C14: get_user_language called next after add_user_to_db(chat_id, lang = L)
\* returned True gives L, and called next after set_user_language(chat_id, L2)
\* returned True gives L2.
C14_LanguageRoundTrip ==
    [][(/\ last.op \in {"add_user_to_db", "set_user_language"}
        /\ last.ret = "True"
        /\ IsCall("get_user_language")
        /\ last'.cause = "ok"
        /\ last'.args.chat_id = last.args.chat_id)
       => last'.ret = last.args.lang]_vars

\* C16: a call is performed for one application, so a step ends the dueness
\* of at most one application that stays stored: of two applications that are
\* due for a period, a call that refreshes one leaves the other due.
C16_DueUntilRefreshed ==
    [][\A p \in Periods :
          Cardinality({r \in apps :
                         /\ NeedsUpdate(r, now, p)
                         /\ \E x \in apps' : /\ AppKey(x) = AppKey(r)
                                             /\ ~NeedsUpdate(x, now', p)}) <= 1]_vars

\* C17: update_timestamp leaves the set of rows and every row's
\* current_status, is_resolved and language as they were and leaves Users
\* alone; when the store answers, the rows of the chat_id carry the current
\* time as last_updated and the other rows their old one.
C17_TimestampOnly ==
    [][IsCall("update_timestamp")
       => /\ users' = users
          /\ Cardinality(apps') = Cardinality(apps)
          /\ \A r \in apps : \E x \in apps' :
                /\ AppKey(x) = AppKey(r)
                /\ x.current_status = r.current_status
                /\ x.is_resolved = r.is_resolved
                /\ x.language = r.language
                /\ x.last_updated =
                     IF last'.cause = "ok" /\ r.chat_id = last'.args.chat_id
                     THEN <<now>> ELSE r.last_updated]_vars

\* C17 witness: update_timestamp refreshed a resolved application with a
\* status other than the default, after the epoch.
C17_Witness ==
    /\ last.op = "update_timestamp"
    /\ last.cause = "ok"
    /\ last.at > 0
    /\ \E r \in apps :
          /\ r.is_resolved
          /\ r.current_status = "Approved"
          /\ r.last_updated = <<last.at>>

\* C18: a query that follows an answered update_db_status or
\* update_timestamp made at time t, and runs no later than t + period, does
\* not return the rows that call refreshed; and no query returns a row whose
\* last_updated t has t + period at or after the query's time.
C18_Recent ==
    (last.op = "get_applications_needing_update" /\ last.cause = "ok")
    => \A r \in apps :
          (r.last_updated # NULL /\ last.at <= r.last_updated[1] + last.args.period)
          => Selected(r) \notin last.rows

C18_NotReselected ==
    /\ [][(/\ last.op \in {"update_db_status", "update_timestamp"}
           /\ last.cause = "ok"
           /\ IsCall("get_applications_needing_update")
           /\ last'.cause = "ok"
           /\ last'.at <= last.at + last'.args.period)
          => \A r \in apps :
                (/\ r.chat_id = last.args.chat_id
                 /\ last.op = "update_db_status"
                    => r.application_number = last.args.application_number)
                => Selected(r) \notin last'.rows]_vars
    /\ []C18_Recent

\* C18 witness: a query with a positive period, run exactly period after an
\* unresolved application was refreshed, left that application out.
C18_Witness ==
    /\ last.op = "get_applications_needing_update"
    /\ last.cause = "ok"
    /\ last.args.period > 0
    /\ \E r \in apps :
          /\ ~r.is_resolved
          /\ r.last_updated # NULL
          /\ last.at = r.last_updated[1] + last.args.period
          /\ Selected(r) \notin last.rows

\* C20: when update_db_status has returned True, a row of that chat_id and
\* application_number is stored and holds the status and is_resolved given.
C20_TrueMeansUpdated ==
    (last.op = "update_db_status" /\ last.ret = "True")
    => \E r \in apps :
          /\ r.chat_id = last.args.chat_id
          /\ r.application_number = last.args.application_number
          /\ r.current_status = last.args.status
          /\ r.is_resolved = last.args.is_resolved

RECURSIVE Pow2(_)
Pow2(n) == IF n <= 0 THEN 1 ELSE 2 * Pow2(n - 1)

\* C12: connect makes its attempts in order and at most max_retries of them,
\* stops at the first that succeeds, has waited delay * 2^(k-1) after the k-th
\* failed attempt for each k < max_retries, raises when attempt max_retries
\* fails without a wait after it, and comes to an end.
C12_Protocol ==
    /\ conn.tries <= (IF conn.max_retries > 0 THEN conn.max_retries ELSE 0)
    /\ \A k \in 1..Len(conn.slept) : conn.slept[k] = conn.first * Pow2(k - 1)
    /\ conn.pc = "attempt"
       => /\ conn.attempt <= conn.max_retries
          /\ conn.tries = conn.attempt - 1
          /\ Len(conn.slept) = conn.attempt - 1
          /\ conn.pool = "None"
    /\ conn.pc = "sleep"
       => /\ conn.attempt < conn.max_retries
          /\ conn.tries = conn.attempt
          /\ Len(conn.slept) = conn.attempt - 1
          /\ conn.pool = "None"
    /\ (conn.pc = "returned" /\ conn.max_retries >= 1)
       => /\ conn.pool = "pool"
          /\ conn.tries = conn.attempt
          /\ Len(conn.slept) = conn.tries - 1
    /\ conn.pc = "raised"
       => /\ conn.tries = conn.max_retries
          /\ Len(conn.slept) = conn.max_retries - 1
          /\ conn.pool = "None"

C12_Retry == []C12_Protocol /\ <>(conn.pc \in {"returned", "raised"})

\* C12 witness: connect gave up after three or more failed attempts, having
\* slept between them.
C12_Witness ==
    /\ conn.pc = "raised"
    /\ conn.max_retries >= 3
    /\ Len(conn.slept) = conn.max_retries - 1

\* C19: when connect has returned normally, self.pool is set, whatever
\* max_retries was.
C19_PoolAfterReturn == conn.pc = "returned" => conn.pool = "pool"

\* The task whose UPDATE the store ran last.
LastWriter == CHOOSE t \in TaskIds : \A u \in TaskIds : tasks[u].wrote <= tasks[t].wrote

\* C15: when both concurrent update_db_status calls have returned True, every
\* row of the application holds the status and is_resolved of one and the
\* same call, the one whose update ran last, and last_updated is the time of
\* that update.
C15_LastWriterWins ==
    (\A t \in TaskIds : tasks[t].pc = "done" /\ tasks[t].ret = "True")
    => \A r \in RowsOfNumber(users, apps, TargetChat, TargetNumber) :
          /\ r.current_status = tasks[LastWriter].status
          /\ r.is_resolved = tasks[LastWriter].is_resolved
          /\ r.last_updated = <<tasks[LastWriter].at>>

\* C15 witness: the two calls differed in status and in is_resolved, both
\* returned True, and t1 wrote last, at a later time than t2.
C15_Witness ==
    /\ \A t \in TaskIds : tasks[t].pc = "done" /\ tasks[t].ret = "True"
    /\ tasks["t1"].status # tasks["t2"].status
    /\ tasks["t1"].is_resolved # tasks["t2"].is_resolved
    /\ tasks["t1"].wrote > tasks["t2"].wrote
    /\ tasks["t1"].at > tasks["t2"].at
    /\ RowsOfNumber(users, apps, TargetChat, TargetNumber) # {}

====
